---------------------------- MODULE Spec2Model ----------------------------
(***************************************************************************)
(* A model of the weight-propagation engine of prefixtoplists:             *)
(*   domain-top-lists/domain_top_list_generator.py  (RankWeighter,         *)
(*       SourceMerger)                                                     *)
(*   prefix-top-lists/prefix_top_list_generation.py (ResolutionIndex,      *)
(*       WeightPropagator)                                                 *)
(*                                                                         *)
(* Numbers.  The program computes in IEEE doubles.  The model computes in  *)
(* exact rationals <<n, d>> (lowest terms, d >= 0), extended with the      *)
(* three values a double division can produce besides a finite number:     *)
(* <<1,0>> (+inf), <<-1,0>> (-inf) and <<0,0>> (NaN).  Rounding error is   *)
(* outside the model: "equal" below means equal as real numbers.           *)
(*                                                                         *)
(* Strings.  A name is a sequence of one-character strings, so that        *)
(* canonicalize_domain can be modelled by what it does to the characters.  *)
(***************************************************************************)
EXTENDS Integers, Sequences, FiniteSets, TLC

(***************************************************************************)
(* Rational arithmetic                                                     *)
(***************************************************************************)
Abs(x) == IF x < 0 THEN -x ELSE x

Sign(x) == IF x < 0 THEN -1 ELSE IF x > 0 THEN 1 ELSE 0

RECURSIVE Gcd(_, _)
Gcd(a, b) == IF b = 0 THEN a ELSE Gcd(b, a % b)

\* <<n, d>> in lowest terms with d >= 0; d = 0 encodes inf, -inf and NaN
Rat(n, d) ==
    IF d = 0 THEN <<Sign(n), 0>>
    ELSE LET g == Gcd(Abs(n), Abs(d))
         IN  <<Sign(d) * (n \div g), Abs(d) \div g>>

Zero == <<0, 1>>
One == <<1, 1>>
NaN == <<0, 0>>
Inf == <<1, 0>>

IsNaN(x) == x = NaN
IsFinite(x) == x[2] # 0

RAdd(x, y) ==
    IF IsNaN(x) \/ IsNaN(y) THEN NaN
    ELSE IF x[2] = 0 /\ y[2] = 0 THEN (IF x[1] = y[1] THEN x ELSE NaN)
    ELSE IF x[2] = 0 THEN x
    ELSE IF y[2] = 0 THEN y
    ELSE Rat(x[1] * y[2] + y[1] * x[2], x[2] * y[2])

RNeg(x) == <<-x[1], x[2]>>

RSub(x, y) == RAdd(x, RNeg(y))

RMul(x, y) ==
    IF IsNaN(x) \/ IsNaN(y) THEN NaN
    ELSE Rat(x[1] * y[1], x[2] * y[2])

\* x / y as numpy divides doubles: 1/0 = inf, 0/0 = NaN, inf/inf = NaN
RDiv(x, y) ==
    IF IsNaN(x) \/ IsNaN(y) THEN NaN
    ELSE IF x[2] = 0 /\ y[2] = 0 THEN NaN
    ELSE IF y[1] < 0 THEN Rat(-(x[1] * y[2]), x[2] * (-y[1]))
    ELSE Rat(x[1] * y[2], x[2] * y[1])

RAbs(x) == <<Abs(x[1]), x[2]>>

\* x < y; every comparison with NaN is false
RLess(x, y) ==
    IF IsNaN(x) \/ IsNaN(y) THEN FALSE
    ELSE IF x[2] = 0 /\ y[2] = 0 THEN x[1] < y[1]
    ELSE IF x[2] = 0 THEN x[1] < 0
    ELSE IF y[2] = 0 THEN y[1] > 0
    ELSE x[1] * y[2] < y[1] * x[2]

RLeq(x, y) == RLess(x, y) \/ (~IsNaN(x) /\ x = y)

RECURSIVE RPow(_, _)
RPow(x, k) == IF k = 0 THEN One ELSE RMul(x, RPow(x, k - 1))

\* the sum of f[i] over a sequence of numbers, left to right
RECURSIVE SeqSum(_)
SeqSum(sq) == IF sq = <<>> THEN Zero
              ELSE RAdd(SeqSum(SubSeq(sq, 1, Len(sq) - 1)), sq[Len(sq)])

\* the sum of the weight column of a table (a sequence of rows)
WeightSum(rows) == SeqSum([i \in 1..Len(rows) |-> rows[i].weight])

\* the sum of f over a finite set of keys
RECURSIVE SetSum(_, _)
SetSum(f, S) == IF S = {} THEN Zero
                ELSE LET x == CHOOSE y \in S : TRUE
                     IN  RAdd(f[x], SetSum(f, S \ {x}))

Range(sq) == {sq[i] : i \in 1..Len(sq)}

\* all sequences over S of length 0..n
SeqsUpTo(S, n) == UNION {[1..k -> S] : k \in 0..n}

(***************************************************************************)
(* Names and their order                                                   *)
(***************************************************************************)
\* the characters that occur in the model's names, in ASCII order
Alphabet == <<".", "a", "b", "c", "w", "x">>

CharCode(c) == CHOOSE i \in 1..Len(Alphabet) : Alphabet[i] = c

\* s < t in Python's string order
RECURSIVE LexLess(_, _)
LexLess(s, t) ==
    IF t = <<>> THEN FALSE
    ELSE IF s = <<>> THEN TRUE
    ELSE IF s[1] # t[1] THEN CharCode(s[1]) < CharCode(t[1])
    ELSE LexLess(Tail(s), Tail(t))

\* sorted(S) for a finite set of names
RECURSIVE SortedNames(_)
SortedNames(S) ==
    IF S = {} THEN <<>>
    ELSE LET m == CHOOSE x \in S : \A y \in S \ {x} : LexLess(x, y)
         IN  <<m>> \o SortedNames(S \ {m})

\* the i-th of a supply of distinct entity names: "x", "xx", "xxx", ...
EntityName(i) == [j \in 1..i |-> "x"]

(***************************************************************************)
(* Bounds of the model                                                     *)
(***************************************************************************)
\* RankWeighter: entities per list, and the largest rank value
MaxEntries == 4
MaxRank == 4
\* SourceMerger: sources per merge, rows per source, rows of all the sources
MaxSources == 2
MaxSrcRows == 2
MaxMergeRows == 4
\* ResolutionIndex: resolution records read by one process_dns_files call
MaxRecords == 2
\* WeightPropagator: rows of the weight file naming domains no record names
MaxFiller == 11
\* canonicalize_domain: characters of a name
MaxNameLen == 9
\* process_dataset: entities per short file
MaxFileEntries == 3
\* download_and_extract_columns: the largest max_retries a call is given
MaxRetryLimit == 6

(***************************************************************************)
(* RankWeighter                                                            *)
(***************************************************************************)
\* the Zipf exponents tried (apply_zipf_weighting's default is 1.0)
Exponents == {1, 2}

\* H(N, s) = sum of 1 / r^s for r = 1..N  (np.sum over np.arange(1, N + 1))
RECURSIVE precompute_harmonic_sum(_, _)
precompute_harmonic_sum(total_elements, s) ==
    IF total_elements = 0 THEN Zero
    ELSE RAdd(precompute_harmonic_sum(total_elements - 1, s),
              RDiv(One, RPow(<<total_elements, 1>>, s)))

\* a slip: the harmonic sum taken with the default exponent, whatever s is
apply_zipf_weighting_default_sum(df, s) ==
    LET harmonic_sum == precompute_harmonic_sum(Len(df), 1)
    IN  [i \in 1..Len(df) |->
            [domain |-> df[i].domain,
             rank   |-> df[i].rank,
             weight |-> RDiv(RDiv(One, RPow(<<df[i].rank, 1>>, s)), harmonic_sum)]]

\* df with the column weight = (1 / rank^s) / harmonic_sum added
apply_zipf_weighting(df, s) ==
    LET total_entries == Len(df)
        harmonic_sum == precompute_harmonic_sum(total_entries, s)
    IN  [i \in 1..Len(df) |->
            [domain |-> df[i].domain,
             rank   |-> df[i].rank,
             weight |-> RDiv(RDiv(One, RPow(<<df[i].rank, 1>>, s)), harmonic_sum)]]

(***************************************************************************)
(* SourceMerger: weighted merge                                            *)
(***************************************************************************)
\* the domains named by the rows of a table
DomainsOf(rows) == {rows[i].domain : i \in 1..Len(rows)}

\* the rows of a table that name domain d, in table order
RowsOf(rows, d) == SelectSeq(rows, LAMBDA r : r.domain = d)

\* a slip: a domain a source lists twice keeps the weight of its first row
GroupbyFirst(rows) ==
    LET keys == SortedNames(DomainsOf(rows))
    IN  [i \in 1..Len(keys) |->
            [domain |-> keys[i], weight |-> RowsOf(rows, keys[i])[1].weight]]

\* df.groupby("domain", as_index=False)["weight"].mean(): one row per domain,
\* in sorted domain order, holding the mean of the domain's rows
GroupbyMean(rows) ==
    LET keys == SortedNames(DomainsOf(rows))
    IN  [i \in 1..Len(keys) |->
            [domain |-> keys[i],
             weight |-> RDiv(WeightSum(RowsOf(rows, keys[i])),
                             <<Len(RowsOf(rows, keys[i])), 1>>)]]

\* the weight a deduplicated source gives a domain after the outer join and
\* fillna(0): its weight, or 0 when the source does not name the domain
FilledWeight(src, d) ==
    IF d \in DomainsOf(src) THEN RowsOf(src, d)[1].weight ELSE Zero

\* a slip: the mean taken over the sources that list d only (no zero fill)
MeanAcrossAvailable(srcs, d) ==
    LET having == SelectSeq(srcs, LAMBDA src : d \in DomainsOf(src))
    IN  RDiv(SeqSum([i \in 1..Len(having) |-> FilledWeight(having[i], d)]),
             <<Len(having), 1>>)

\* merged_df[weight_columns].mean(axis=1) for domain d
MeanAcrossSources(srcs, d) ==
    RDiv(SeqSum([i \in 1..Len(srcs) |-> FilledWeight(srcs[i], d)]),
         <<Len(srcs), 1>>)

\* rows in descending weight order, rows of equal weight in their given order
\* (sort_values(ascending=False) on a short table), NaN weights last
RECURSIVE SortDescending(_)
SortDescending(rows) ==
    IF rows = <<>> THEN <<>>
    ELSE LET n == Len(rows)
             Top(i) == \A j \in 1..n :
                          \/ IsNaN(rows[j].weight)
                          \/ /\ ~IsNaN(rows[i].weight)
                             /\ RLeq(rows[j].weight, rows[i].weight)
             i == IF \E k \in 1..n : Top(k)
                  THEN CHOOSE k \in 1..n : Top(k) /\ \A j \in 1..(k - 1) : ~Top(j)
                  ELSE 1
         IN  <<rows[i]>> \o
             SortDescending(SubSeq(rows, 1, i - 1) \o SubSeq(rows, i + 1, n))

\* Step 1 of merge_and_average_zipf_weights for source i (0-based): the
\* deduplicated table, its weight column renamed weight_<i>
RenamedSource(src, i) ==
    [wcol |-> <<"weight_", i>>, rows |-> GroupbyMean(src.rows)]

\* a slip: the merged table returned without its final sort
MergedTableUnsorted(srcs) ==
    LET keys == SortedNames(UNION {DomainsOf(srcs[i]) : i \in 1..Len(srcs)})
        mean == [d \in Range(keys) |-> MeanAcrossSources(srcs, d)]
        total == SeqSum([i \in 1..Len(keys) |-> mean[keys[i]]])
    IN  [i \in 1..Len(keys) |->
            [domain |-> keys[i], weight |-> RDiv(mean[keys[i]], total)]]

\* Steps 2-7: outer join on domain (keys sorted), fill 0, mean, normalise,
\* keep domain and final_weight, sort descending
MergedTable(srcs) ==
    LET keys == SortedNames(UNION {DomainsOf(srcs[i]) : i \in 1..Len(srcs)})
        mean == [d \in Range(keys) |-> MeanAcrossSources(srcs, d)]
        total == SeqSum([i \in 1..Len(keys) |-> mean[keys[i]]])
    IN  SortDescending([i \in 1..Len(keys) |->
            [domain |-> keys[i], weight |-> RDiv(mean[keys[i]], total)]])

(***************************************************************************)
(* process_dataset                                                         *)
(***************************************************************************)
\* df.head(10) and range(1, 11) of the top-10 printout
TopRows == 10

\* df["rank"].nunique()
RankValues(df) == {df[i].rank : i \in 1..Len(df)}

\* a slip: the Zipf formula applied whatever the ranks are
FileWeightsAlwaysZipf(df, uw) ==
    IF uw THEN apply_zipf_weighting(df, 1)
    ELSE [i \in 1..Len(df) |->
            [domain |-> df[i].domain, rank |-> df[i].rank, weight |-> One]]

\* lines 58-64: the weight column of one loaded file (len(df) > 0 where the
\* uniform weight is taken)
FileWeights(df, uw) ==
    IF uw
    THEN IF Cardinality(RankValues(df)) > 1
         THEN apply_zipf_weighting(df, 1)
         ELSE [i \in 1..Len(df) |->
                 [domain |-> df[i].domain, rank |-> df[i].rank,
                  weight |-> RDiv(One, <<Len(df), 1>>)]]
    ELSE [i \in 1..Len(df) |->
            [domain |-> df[i].domain, rank |-> df[i].rank, weight |-> One]]

\* pd.concat(df_list)
RECURSIVE Concat(_)
Concat(list) == IF list = <<>> THEN <<>> ELSE Head(list) \o Concat(Tail(list))

\* drop_duplicates(subset="domain"): the first row of every domain
DropDuplicates(rows) ==
    SelectSeq([i \in 1..Len(rows) |->
                  [r |-> rows[i],
                   first |-> \A j \in 1..(i - 1) : rows[j].domain # rows[i].domain]],
              LAMBDA e : e.first)

\* lines 71-84: the table of domain and final_weight
DatasetTable(list, uw) ==
    IF uw
    THEN LET base == IF Len(list) > 1 THEN GroupbyMean(Concat(list)) ELSE list[1]
             total == WeightSum(base)
             sorted == SortDescending([i \in 1..Len(base) |->
                          [domain |-> base[i].domain,
                           weight |-> RDiv(base[i].weight, total)]])
         IN  [i \in 1..Len(sorted) |->
                [domain |-> sorted[i].domain, final_weight |-> sorted[i].weight]]
    ELSE LET kept == DropDuplicates(Concat(list))
         IN  [i \in 1..Len(kept) |->
                [domain |-> kept[i].r.domain, final_weight |-> NaN]]

(***************************************************************************)
(* SourceMerger: presence merge                                            *)
(***************************************************************************)
\* a slip: the domain column taken without drop_duplicates
flatten_keeping_duplicates(df) == [i \in 1..Len(df) |-> df[i].domain]

\* df[["domain"]].drop_duplicates(): the domains of df, each once, in the
\* order of their first rows
flatten_to_unweighted(df) ==
    LET kept == DropDuplicates(df)
    IN  [i \in 1..Len(kept) |-> kept[i].r.domain]

\* Counter(all_domains).items(): every domain with the number of times it is
\* listed, in the order of first listing
CounterItems(all_domains) ==
    LET firsts == SelectSeq([i \in 1..Len(all_domains) |->
                     [domain |-> all_domains[i],
                      first |-> \A j \in 1..(i - 1) : all_domains[j] # all_domains[i]]],
                     LAMBDA e : e.first)
    IN  [i \in 1..Len(firsts) |->
            [domain |-> firsts[i].domain,
             frequency |-> Cardinality({j \in 1..Len(all_domains) :
                                          all_domains[j] = firsts[i].domain})]]

\* lines 146-156
build_frequency_rank(list) ==
    LET all_domains == Concat([i \in 1..Len(list) |-> flatten_to_unweighted(list[i])])
        counts == CounterItems(all_domains)
        sorted == SortDescending([i \in 1..Len(counts) |->
                     [domain |-> counts[i].domain,
                      frequency |-> counts[i].frequency,
                      weight |-> <<counts[i].frequency, 1>>]])
    IN  [i \in 1..Len(sorted) |->
            [domain |-> sorted[i].domain,
             frequency |-> sorted[i].frequency,
             normalized_frequency |->
                 RDiv(<<sorted[i].frequency, 1>>, <<Len(list), 1>>)]]

(***************************************************************************)
(* Python dicts: a sequence of <<key, value>> pairs in insertion order     *)
(***************************************************************************)
DKeys(d) == {d[i][1] : i \in 1..Len(d)}

DHas(d, k) == k \in DKeys(d)

\* d.get(k, default)
DGet(d, k, default) ==
    IF DHas(d, k) THEN d[CHOOSE i \in 1..Len(d) : d[i][1] = k][2] ELSE default

\* d[k] = v
DPut(d, k, v) ==
    IF DHas(d, k)
    THEN [i \in 1..Len(d) |-> IF d[i][1] = k THEN <<k, v>> ELSE d[i]]
    ELSE Append(d, <<k, v>>)

\* d.setdefault(k, []).append(x) if x not in d.get(k, []) else None
AppendUnique(d, k, x) ==
    IF x \in Range(DGet(d, k, <<>>)) THEN d
    ELSE DPut(d, k, Append(DGet(d, k, <<>>), x))

\* d.setdefault(k, set()).add(x)  /  .update(xs)
AddAll(d, k, xs) == DPut(d, k, DGet(d, k, {}) \cup xs)

\* the orders in which the elements of a finite set can be listed
Orderings(S) ==
    {sq \in [1..Cardinality(S) -> S] : Range(sq) = S}

(***************************************************************************)
(* ResolutionIndex: canonicalize_domain and process_dns_files              *)
(***************************************************************************)
None == <<"None">>

Www == <<"w", "w", "w", ".">>

\* s.rstrip('.')
RECURSIVE RStripDots(_)
RStripDots(s) ==
    IF s # <<>> /\ s[Len(s)] = "." THEN RStripDots(SubSeq(s, 1, Len(s) - 1))
    ELSE s

\* "www." occurs in s at position i
WwwAt(s, i) == i + 3 <= Len(s) /\ SubSeq(s, i, i + 3) = Www

\* s.replace("www.", "", 1): the first occurrence, wherever it is, removed
ReplaceFirstWww(s) ==
    IF \E i \in 1..Len(s) : WwwAt(s, i)
    THEN LET i == CHOOSE k \in 1..Len(s) :
                    WwwAt(s, k) /\ \A j \in 1..(k - 1) : ~WwwAt(s, j)
         IN  SubSeq(s, 1, i - 1) \o SubSeq(s, i + 4, Len(s))
    ELSE s

canonicalize_domain(domain) ==
    IF domain = None THEN None
    ELSE ReplaceFirstWww(IF domain # <<>> /\ domain[Len(domain)] = "."
                         THEN SubSeq(domain, 1, Len(domain) - 1)
                         ELSE domain)

\* pfx.count('.') or ':' in pfx
HasDotOrColon(pfx) == \E i \in 1..Len(pfx) : pfx[i] \in {".", ":"}

\* row['ip4_address'] or row['ip6_address']
IpOf(r) == IF r.ip4_address # "" THEN r.ip4_address ELSE r.ip6_address

\* the canonical name process_dns_files files a record under
CanonOf(r) == canonicalize_domain(RStripDots(r.query_name))

\* a slip: the shape of the prefix is not looked at
SkippedWithoutPrefixShape(r) ==
    \/ IpOf(r) = ""
    \/ r.ip_prefix = <<>>
    \/ CanonOf(r) \in {None, <<>>}

\* line 44: the record is skipped
Skipped(r) ==
    \/ IpOf(r) = ""
    \/ r.ip_prefix = <<>>
    \/ CanonOf(r) \in {None, <<>>}
    \/ ~HasDotOrColon(r.ip_prefix)

\* lines 56-59: the second canonicalization pass over the keys of domain2pfx,
\* each key's prefix list appended to the list of its canonical name
RECURSIVE AliasMap(_)
AliasMap(d2p) ==
    IF d2p = <<>> THEN <<>>
    ELSE LET rest == AliasMap(SubSeq(d2p, 1, Len(d2p) - 1))
             last == d2p[Len(d2p)]
             canon == canonicalize_domain(last[1])
         IN  DPut(rest, canon, DGet(rest, canon, <<>>) \o last[2])

(***************************************************************************)
(* WeightPropagator: the steps of distribute_weights                       *)
(***************************************************************************)
\* print(unmatched.sort_values(...)[...].head(10)): the rows the report shows
HeadLimit == 10

\* abs(df['weight'].sum() - 1.0) > 0.05
Tolerance == <<1, 20>>

Min(a, b) == IF a < b THEN a ELSE b

\* df.head(n)
HeadRows(rows, n) == SubSeq(rows, 1, Min(n, Len(rows)))

\* lines 73-79: the weight column renamed, raw_domain kept, domain canonicalized
ReadTable(file) ==
    [i \in 1..Len(file.rows) |->
        [raw_domain |-> file.rows[i].domain,
         domain     |-> canonicalize_domain(file.rows[i].domain),
         weight     |-> file.rows[i].weight]]

\* line 85: df[df['domain'].isin(domain2pfx)]
MatchedRows(table, d2pfx) == SelectSeq(table, LAMBDA r : DHas(d2pfx, r.domain))

\* line 89: df_orig[~df_orig['domain'].isin(domain2pfx)]
UnmatchedRows(table, d2pfx) == SelectSeq(table, LAMBDA r : ~DHas(d2pfx, r.domain))

\* a slip: the report taken from the rows left by the filter of line 85 (as
\* lines 96-99 do), which holds no unmatched row
UnmatchedReportAfterFilter(table, d2pfx) ==
    HeadRows(SortDescending(UnmatchedRows(MatchedRows(table, d2pfx), d2pfx)), HeadLimit)

\* lines 91-93: what the report prints of the unmatched rows
UnmatchedReport(table, d2pfx) ==
    HeadRows(SortDescending(UnmatchedRows(table, d2pfx)), HeadLimit)

\* a slip: any drift of the sum from 1.0 normalizes, without the tolerance
NeedsNormalizingAnyDrift(table, is_freq) ==
    is_freq \/ WeightSum(table) # One

\* line 102: the condition of the normalization
NeedsNormalizing(table, is_freq) ==
    is_freq \/ RLess(Tolerance, RAbs(RSub(WeightSum(table), One)))

\* a slip: the quotient computed and not assigned to the column
RenormalizedNotAssigned(table) == table

\* line 105: df['weight'] = df['weight'] / df['weight'].sum()
Renormalized(table) ==
    [i \in 1..Len(table) |->
        [table[i] EXCEPT !.weight = RDiv(table[i].weight, WeightSum(table))]]

\* lines 101-105
NormalizeStep(table, is_freq) ==
    IF NeedsNormalizing(table, is_freq) THEN Renormalized(table) ELSE table

\* lines 116-118 for one domain: split_weight to each of its ips
RECURSIVE SplitOver(_, _, _, _)
SplitOver(acc, domain, split_weight, ips) ==
    IF ips = <<>> THEN acc
    ELSE LET ip == ips[1]
         IN  SplitOver(
                [ip_weights |-> DPut(acc.ip_weights, ip,
                                     RAdd(DGet(acc.ip_weights, ip, Zero), split_weight)),
                 ip2domain  |-> AddAll(acc.ip2domain, ip, {domain})],
                domain, split_weight, Tail(ips))

\* a slip: the whole weight handed to each ip
SplitWeightWhole(weight, ips) == weight

\* line 115: split_weight = weight / len(ips)
SplitWeight(weight, ips) == RDiv(weight, <<Len(ips), 1>>)

\* lines 110-118 over the rows of df, in order
RECURSIVE SplitRows(_, _)
SplitRows(table, d2ip) ==
    IF table = <<>> THEN [ip_weights |-> <<>>, ip2domain |-> <<>>]
    ELSE LET acc == SplitRows(SubSeq(table, 1, Len(table) - 1), d2ip)
             r == table[Len(table)]
             ips == DGet(d2ip, r.domain, <<>>)
         IN  IF ips = <<>> THEN acc
             ELSE SplitOver(acc, r.domain, SplitWeight(r.weight, ips), ips)

\* a slip: the ip's weight divided among its prefixes
PrefixShareSplit(weight, prefixes) == RDiv(weight, <<Len(prefixes), 1>>)

\* the weight an ip hands to each of its prefixes (line 123)
PrefixShare(weight, prefixes) == weight

\* a slip: the ip's weight reaches the first of its prefixes only
CopyToFirstPrefix(acc, ip, weight, doms, prefixes) ==
    IF prefixes = <<>> THEN acc
    ELSE [pfx_weights |-> DPut(acc.pfx_weights, prefixes[1],
                               RAdd(DGet(acc.pfx_weights, prefixes[1], Zero), weight)),
          pfx_ips     |-> AddAll(acc.pfx_ips, prefixes[1], {ip}),
          pfx_domains |-> AddAll(acc.pfx_domains, prefixes[1], doms)]

\* lines 122-125 for one ip: its weight to each of its prefixes
RECURSIVE CopyOver(_, _, _, _, _)
CopyOver(acc, ip, weight, doms, prefixes) ==
    IF prefixes = <<>> THEN acc
    ELSE LET pfx == prefixes[1]
         IN  CopyOver(
                [pfx_weights |-> DPut(acc.pfx_weights, pfx,
                                      RAdd(DGet(acc.pfx_weights, pfx, Zero), weight)),
                 pfx_ips     |-> AddAll(acc.pfx_ips, pfx, {ip}),
                 pfx_domains |-> AddAll(acc.pfx_domains, pfx, doms)],
                ip, weight, doms, Tail(prefixes))

\* lines 120-125 over ip_weights.items(), in order
RECURSIVE AggregateIps(_, _, _)
AggregateIps(ipw, ip2dom, i2pfx) ==
    IF ipw = <<>> THEN [pfx_weights |-> <<>>, pfx_ips |-> <<>>, pfx_domains |-> <<>>]
    ELSE LET acc == AggregateIps(SubSeq(ipw, 1, Len(ipw) - 1), ip2dom, i2pfx)
             ip == ipw[Len(ipw)][1]
             prefixes == DGet(i2pfx, ip, <<>>)
         IN  CopyOver(acc, ip, PrefixShare(ipw[Len(ipw)][2], prefixes),
                      DGet(ip2dom, ip, {}), prefixes)

\* lines 127-129: every ip of the index is added to the ips of its prefixes
RECURSIVE AddIndexIps(_, _)
AddIndexIps(pips, i2pfx) ==
    IF i2pfx = <<>> THEN pips
    ELSE LET rest == AddIndexIps(pips, SubSeq(i2pfx, 1, Len(i2pfx) - 1))
             ip == i2pfx[Len(i2pfx)][1]
             pfxs == i2pfx[Len(i2pfx)][2]
             RECURSIVE Each(_, _)
             Each(acc, ps) == IF ps = <<>> THEN acc
                              ELSE Each(AddAll(acc, ps[1], {ip}), Tail(ps))
         IN  Each(rest, pfxs)

\* lines 131-140: the rows of the prefix table, sorted by descending weight
PrefixTable(pw, pdom, pips, p2as) ==
    SortDescending([i \in 1..Len(pw) |->
        [prefix  |-> pw[i][1],
         weight  |-> pw[i][2],
         domains |-> DGet(pdom, pw[i][1], {}),
         ips     |-> DGet(pips, pw[i][1], {}),
         ases    |-> DGet(p2as, pw[i][1], {})]])

\* a slip: the prefix's weight divided among its ASes
AsShareSplit(weight, ases) == RDiv(weight, <<Len(ases), 1>>)

\* the weight a prefix hands to each of its ASes (line 150)
AsShare(weight, ases) == weight

\* lines 149-153 for one prefix: its weight to each of its ASes, in the order
\* the set pfx2as[pfx] is iterated
RECURSIVE CopyToAses(_, _, _, _, _, _)
CopyToAses(acc, pfx, weight, doms, ips, ases) ==
    IF ases = <<>> THEN acc
    ELSE LET asn == ases[1]
         IN  CopyToAses(
                [as_weights  |-> DPut(acc.as_weights, asn,
                                      RAdd(DGet(acc.as_weights, asn, Zero), weight)),
                 as_prefixes |-> AddAll(acc.as_prefixes, asn, {pfx}),
                 as_domains  |-> AddAll(acc.as_domains, asn, doms),
                 as_ips      |-> AddAll(acc.as_ips, asn, ips)],
                pfx, weight, doms, ips, Tail(ases))

\* lines 147-153 over pfx_weights.items(); order[pfx] lists pfx2as[pfx]
RECURSIVE AggregatePrefixes(_, _, _, _)
AggregatePrefixes(pw, pdom, pips, order) ==
    IF pw = <<>>
    THEN [as_weights |-> <<>>, as_prefixes |-> <<>>, as_domains |-> <<>>, as_ips |-> <<>>]
    ELSE LET acc == AggregatePrefixes(SubSeq(pw, 1, Len(pw) - 1), pdom, pips, order)
             pfx == pw[Len(pw)][1]
             ases == DGet(order, pfx, <<>>)
         IN  CopyToAses(acc, pfx, AsShare(pw[Len(pw)][2], ases),
                        DGet(pdom, pfx, {}), DGet(pips, pfx, {}), ases)

\* lines 155-164: the rows of the AS table, sorted by descending weight
AsTable(aw, apfx, adom, aips) ==
    SortDescending([i \in 1..Len(aw) |->
        [asn      |-> aw[i][1],
         weight   |-> aw[i][2],
         prefixes |-> DGet(apfx, aw[i][1], {}),
         domains  |-> DGet(adom, aw[i][1], {}),
         ips      |-> DGet(aips, aw[i][1], {})]])

\* the ways the value sets of a dict can each be listed (iteration of a set of
\* strings follows their hashes, which the program does not fix)
ListingsOf(d) ==
    {sq \in [1..Len(d) -> UNION {{<<d[i][1], o>> : o \in Orderings(d[i][2])} : i \in 1..Len(d)}] :
        \A i \in 1..Len(d) : sq[i][1] = d[i][1]}

(***************************************************************************)
(* Inputs                                                                  *)
(***************************************************************************)
NameA == <<"a">>
NameB == <<"b">>
NameC == <<"c">>
WwwA == Www \o NameA
WwwWwwA == Www \o Www \o NameA

P1 == <<"1", ".", "1", ".", "1", ".", "0", "/", "2", "4">>
P2 == <<"2", ".", "2", ".", "2", ".", "0", "/", "2", "4">>
P6 == <<"2", "0", "0", "1", ":", "d", "b", "8", ":", ":", "/", "3", "2">>
BadPrefix == <<"b", "a", "d">>

Rec(q, ip4, ip6, pfx, asn) ==
    [query_name |-> q, ip4_address |-> ip4, ip6_address |-> ip6,
     ip_prefix |-> pfx, as |-> asn]

\* the rows a resolution file may hold
RecordPool ==
    { Rec(NameA, "1.1.1.1", "", P1, "AS1"),
      Rec(NameB, "2.2.2.2", "", P2, "AS2"),
      Rec(NameA, "2.2.2.2", "", P2, "AS2"),
      Rec(NameA, "1.1.1.1", "", P2, "AS9"),
      Rec(NameA, "1.1.1.1", "", P1, "AS9"),
      Rec(NameB, "2.2.2.2", "", P2, "AS9"),
      Rec(NameB, "2.2.2.2", "", P2, ""),
      Rec(WwwWwwA, "1.1.1.1", "", P1, "AS1"),
      Rec(Www \o NameB \o <<".">>, "", "2001:db8::1", P6, "AS2"),
      Rec(NameA, "", "", P1, "AS1"),
      Rec(NameA, "1.1.1.1", "", <<>>, "AS1"),
      Rec(NameA, "1.1.1.1", "", BadPrefix, "AS1"),
      Rec(Www, "1.1.1.1", "", P1, "AS1") }

NoRow == Rec(<<>>, "", "", <<>>, "")

WRow(d, w) == [domain |-> d, weight |-> w]

\* weight files written by the weighted merge (column final_weight)
RankedFiles ==
    { <<WRow(NameA, <<3, 5>>), WRow(NameB, <<2, 5>>)>>,
      <<WRow(NameB, <<2, 5>>), WRow(NameA, <<2, 5>>)>>,
      <<WRow(NameA, One)>>,
      <<WRow(NameA, <<24, 25>>)>>,
      <<WRow(WwwA, <<3, 5>>), WRow(NameA, <<2, 5>>)>>,
      <<WRow(WwwWwwA, <<3, 5>>), WRow(NameB, <<2, 5>>)>>,
      <<>> }

\* weight files written by the presence merge (column frequency)
PresenceFiles ==
    { <<WRow(NameA, <<2, 1>>), WRow(NameB, <<1, 1>>)>>,
      <<WRow(NameB, <<1, 1>>)>> }

\* n more rows, naming domains that no resolution record names
Filler(n, w) == [i \in 1..n |-> WRow(EntityName(i), w)]

FillerCounts == {0, 1, MaxFiller}

WeightFiles ==
    {[column |-> "final_weight", rows |-> f \o Filler(n, <<1, 50>>)] :
        f \in RankedFiles, n \in FillerCounts}
    \cup
    {[column |-> "frequency", rows |-> f \o Filler(n, One)] :
        f \in PresenceFiles, n \in FillerCounts}

\* rank lists: entity i has a rank in 0..MaxRank (0 is load_domain_top_list's
\* placeholder for a missing rank)
RankTables ==
    {[i \in 1..Len(ranks) |-> [domain |-> EntityName(i), rank |-> ranks[i]]] :
        ranks \in SeqsUpTo(0..MaxRank, MaxEntries)}

\* per-source weight tables handed to the weighted merge
MergeDomains == {NameA, NameB}
MergeWeights == {<<1, 4>>, <<1, 2>>, <<3, 4>>}

EmptySource == [wcol |-> <<"weight">>, rows |-> <<>>]

RECURSIVE RowCount(_)
RowCount(list) ==
    IF list = <<>> THEN 0
    ELSE RowCount(SubSeq(list, 1, Len(list) - 1)) + Len(list[Len(list)].rows)

(***************************************************************************)
(* State                                                                   *)
(***************************************************************************)
VARIABLES
    pc,                 \* where the run is
    error,              \* the exception that ended the run, or "none"
    \* RankWeighter
    rank_df,            \* the (domain, rank) table given to apply_zipf_weighting
    zipf_s,             \* its exponent s
    zipf_df,            \* the table it returns
    \* SourceMerger
    df_list,            \* the caller's list of source tables
    merged_df,          \* the table merge_and_average_zipf_weights returns
    \* process_dns_files
    row,                \* the record being processed
    nread,              \* records read so far
    domain2ip, domain2pfx, ip2pfx, pfx2as,
    domain2pfx_canon,   \* the alias map returned in place of domain2pfx
    \* distribute_weights
    is_frequency, weight_file,
    df, df_orig, unmatched_report,
    ip_weights, ip2domain,
    pfx_weights, pfx_domains, pfx_ips,
    as_weights, as_prefixes, as_domains, as_ips,
    pfx_table, as_table,
    written,            \* the output files written so far
    \* process_dataset
    filepaths,          \* the tables of the files still to be loaded
    use_weight,
    ds_df_list,         \* its df_list: the weighted table of each file loaded
    ds_df,              \* its df: the table it writes and returns
    ds_written,         \* the domain table file was written
    \* build_frequency_rank
    result_df,          \* the table it returns
    \* canonicalize_domain
    raw_name,           \* the argument of a call
    canon_name,         \* what the call returned
    \* download_and_extract_columns
    max_retries,        \* its argument
    retries, wait_time, \* its locals
    response,           \* how the last download attempt ended
    attempts,           \* download attempts made so far
    slept,              \* the waits of the time.sleep calls made so far
    temp_file,          \* the temporary file exists
    saved,              \* the two CSV files were written
    result              \* what the call returned

rankVars == <<rank_df, zipf_s, zipf_df>>
mergeVars == <<df_list, merged_df>>
dnsVars == <<row, nread, domain2ip, domain2pfx, ip2pfx, pfx2as, domain2pfx_canon>>
inputVars == <<is_frequency, weight_file>>
tableVars == <<df, df_orig, unmatched_report>>
ipVars == <<ip_weights, ip2domain>>
pfxVars == <<pfx_weights, pfx_domains, pfx_ips>>
asVars == <<as_weights, as_prefixes, as_domains, as_ips>>
outVars == <<pfx_table, as_table, written>>
weightVars == <<inputVars, tableVars, ipVars, pfxVars, asVars, outVars>>
datasetVars == <<filepaths, use_weight, ds_df_list, ds_df, ds_written>>
freqVars == <<result_df>>
canonVars == <<raw_name, canon_name>>
downloadVars == <<max_retries, retries, wait_time, response, attempts, slept,
                  temp_file, saved, result>>
stageVars == <<datasetVars, freqVars, canonVars, downloadVars>>
vars == <<pc, error, rankVars, mergeVars, dnsVars, stageVars, weightVars, stageVars>>

InitRank == rank_df = <<>> /\ zipf_s = 1 /\ zipf_df = <<>>
InitMerge == df_list = <<>> /\ merged_df = <<>>
InitDns ==
    /\ row = NoRow /\ nread = 0
    /\ domain2ip = <<>> /\ domain2pfx = <<>> /\ ip2pfx = <<>> /\ pfx2as = <<>>
    /\ domain2pfx_canon = <<>>
InitWeights ==
    /\ is_frequency = FALSE /\ weight_file = [column |-> "", rows |-> <<>>]
    /\ df = <<>> /\ df_orig = <<>> /\ unmatched_report = <<>>
    /\ ip_weights = <<>> /\ ip2domain = <<>>
    /\ pfx_weights = <<>> /\ pfx_domains = <<>> /\ pfx_ips = <<>>
    /\ as_weights = <<>> /\ as_prefixes = <<>> /\ as_domains = <<>> /\ as_ips = <<>>
    /\ pfx_table = <<>> /\ as_table = <<>> /\ written = {}

InitDataset ==
    /\ filepaths = <<>> /\ use_weight = TRUE
    /\ ds_df_list = <<>> /\ ds_df = <<>> /\ ds_written = FALSE
InitFreq == result_df = <<>>
InitCanon == raw_name = <<>> /\ canon_name = <<>>
InitDownload ==
    /\ max_retries = 0 /\ retries = 0 /\ wait_time = 0
    /\ response = "none" /\ attempts = 0 /\ slept = <<>>
    /\ temp_file = FALSE /\ saved = FALSE /\ result = "none"

(***************************************************************************)
(* run_pipeline: process_dns_files, then distribute_weights                *)
(***************************************************************************)
Init ==
    /\ pc = "dns" /\ error = "none"
    /\ InitRank /\ InitMerge /\ InitDns /\ InitWeights
    /\ InitDataset /\ InitFreq /\ InitCanon /\ InitDownload

\* lines 36-51: one row of a resolution file
ProcessRow(r) ==
    /\ pc = "dns"
    /\ nread < MaxRecords
    /\ row' = r
    /\ nread' = nread + 1
    /\ IF Skipped(r)
       THEN UNCHANGED <<domain2ip, domain2pfx, ip2pfx, pfx2as>>
       ELSE /\ domain2ip' = AppendUnique(domain2ip, CanonOf(r), IpOf(r))
            /\ domain2pfx' = AppendUnique(domain2pfx, CanonOf(r), r.ip_prefix)
            /\ ip2pfx' = AppendUnique(ip2pfx, IpOf(r), r.ip_prefix)
            /\ pfx2as' = IF r.as # "" THEN AddAll(pfx2as, r.ip_prefix, {r.as})
                         ELSE pfx2as
    /\ UNCHANGED <<pc, error, domain2pfx_canon, rankVars, mergeVars, weightVars, stageVars>>

\* lines 55-62: the alias map, ip2pfx relisted through set(), the return
ReturnIndex ==
    /\ pc = "dns"
    /\ domain2pfx_canon' = AliasMap(domain2pfx)
    /\ ip2pfx' \in ListingsOf([i \in 1..Len(ip2pfx) |->
                                  <<ip2pfx[i][1], Range(ip2pfx[i][2])>>])
    /\ row' = NoRow
    /\ pc' = "read"
    /\ UNCHANGED <<error, nread, domain2ip, domain2pfx, pfx2as,
                   rankVars, mergeVars, weightVars, stageVars>>

\* line 68 (ranked runs) and lines 69-71: the weight column is missing
MissingColumn(file, freq) ==
    IF ~freq /\ file.column # "final_weight" THEN "KeyError"
    ELSE IF freq /\ file.column # "frequency" THEN "ValueError"
    ELSE "none"

\* lines 67-79: the weight file is read
ReadWeights(file, freq) ==
    /\ pc = "read"
    /\ weight_file' = file
    /\ is_frequency' = freq
    /\ IF MissingColumn(file, freq) # "none"
       THEN /\ error' = MissingColumn(file, freq)
            /\ pc' = "failed"
            /\ UNCHANGED <<df, df_orig>>
       ELSE /\ df' = ReadTable(file)
            /\ df_orig' = ReadTable(file)
            /\ pc' = "match"
            /\ UNCHANGED error
    /\ UNCHANGED <<unmatched_report, rankVars, mergeVars, dnsVars, stageVars,
                   ipVars, pfxVars, asVars, outVars>>

\* lines 81-99: the rows are matched against the keys of domain2pfx
Match ==
    /\ pc = "match"
    /\ df' = MatchedRows(df, domain2pfx_canon)
    /\ unmatched_report' = UnmatchedReport(df_orig, domain2pfx_canon)
    /\ pc' = "normalize"
    /\ UNCHANGED <<error, df_orig, rankVars, mergeVars, dnsVars, stageVars, inputVars,
                   ipVars, pfxVars, asVars, outVars>>

\* lines 101-105
Normalize ==
    /\ pc = "normalize"
    /\ df' = NormalizeStep(df, is_frequency)
    /\ pc' = "split"
    /\ UNCHANGED <<error, df_orig, unmatched_report, rankVars, mergeVars, dnsVars, stageVars,
                   inputVars, ipVars, pfxVars, asVars, outVars>>

\* lines 107-118
Split ==
    /\ pc = "split"
    /\ ip_weights' = SplitRows(df, domain2ip).ip_weights
    /\ ip2domain' = SplitRows(df, domain2ip).ip2domain
    /\ pc' = "prefix"
    /\ UNCHANGED <<error, rankVars, mergeVars, dnsVars, stageVars, inputVars, tableVars,
                   pfxVars, asVars, outVars>>

\* lines 120-144: the prefix level; sort_values raises on a table without rows
PrefixLevel ==
    /\ pc = "prefix"
    /\ LET acc == AggregateIps(ip_weights, ip2domain, ip2pfx)
           ips == AddIndexIps(acc.pfx_ips, ip2pfx)
       IN  /\ pfx_weights' = acc.pfx_weights
           /\ pfx_domains' = acc.pfx_domains
           /\ pfx_ips' = ips
           /\ IF acc.pfx_weights = <<>>
              THEN /\ error' = "KeyError"
                   /\ pc' = "failed"
                   /\ UNCHANGED <<pfx_table, written>>
              ELSE /\ pfx_table' = PrefixTable(acc.pfx_weights, acc.pfx_domains,
                                               ips, pfx2as)
                   /\ written' = written \cup {"prefix"}
                   /\ pc' = "as"
                   /\ UNCHANGED error
    /\ UNCHANGED <<as_table, rankVars, mergeVars, dnsVars, stageVars, inputVars, tableVars,
                   ipVars, asVars>>

\* lines 146-170: the AS level; sort_values raises on a table without rows
AsLevel(order) ==
    /\ pc = "as"
    /\ LET acc == AggregatePrefixes(pfx_weights, pfx_domains, pfx_ips, order)
       IN  /\ as_weights' = acc.as_weights
           /\ as_prefixes' = acc.as_prefixes
           /\ as_domains' = acc.as_domains
           /\ as_ips' = acc.as_ips
           /\ IF acc.as_weights = <<>>
              THEN /\ error' = "KeyError"
                   /\ pc' = "failed"
                   /\ UNCHANGED <<as_table, written>>
              ELSE /\ as_table' = AsTable(acc.as_weights, acc.as_prefixes,
                                          acc.as_domains, acc.as_ips)
                   /\ written' = written \cup {"as"}
                   /\ pc' = "done"
                   /\ UNCHANGED error
    /\ UNCHANGED <<pfx_table, rankVars, mergeVars, dnsVars, stageVars, inputVars, tableVars,
                   ipVars, pfxVars>>

Next ==
    \/ \E r \in RecordPool : ProcessRow(r)
    \/ ReturnIndex
    \/ \E file \in WeightFiles, freq \in BOOLEAN : ReadWeights(file, freq)
    \/ Match
    \/ Normalize
    \/ Split
    \/ PrefixLevel
    \/ \E order \in ListingsOf(pfx2as) : AsLevel(order)

Spec == Init /\ [][Next]_vars

(***************************************************************************)
(* RankWeighter runs                                                       *)
(***************************************************************************)
InitRankWeighter ==
    /\ pc = "rank" /\ error = "none"
    /\ rank_df \in RankTables
    /\ zipf_s \in Exponents
    /\ zipf_df = <<>>
    /\ InitMerge /\ InitDns /\ InitWeights
    /\ InitDataset /\ InitFreq /\ InitCanon /\ InitDownload

\* lines 41-48
ApplyZipf ==
    /\ pc = "rank"
    /\ zipf_df' = apply_zipf_weighting(rank_df, zipf_s)
    /\ pc' = "ranked"
    /\ UNCHANGED <<error, rank_df, zipf_s, mergeVars, dnsVars, weightVars, stageVars>>

NextRank == ApplyZipf

SpecRank == InitRankWeighter /\ [][NextRank]_vars

(***************************************************************************)
(* SourceMerger runs                                                       *)
(***************************************************************************)
InitSourceMerger ==
    /\ pc = "merge" /\ error = "none"
    /\ df_list = <<EmptySource>>
    /\ merged_df = <<>>
    /\ InitRank /\ InitDns /\ InitWeights
    /\ InitDataset /\ InitFreq /\ InitCanon /\ InitDownload

\* the caller adds a row to the source it is preparing (lines 158-159, 191);
\* a source's weights are shares of one distribution and sum to at most 1
AddRow(d, w) ==
    /\ pc = "merge"
    /\ Len(df_list[Len(df_list)].rows) < MaxSrcRows
    /\ RowCount(df_list) < MaxMergeRows
    /\ RLeq(RAdd(WeightSum(df_list[Len(df_list)].rows), w), One)
    /\ df_list' = [df_list EXCEPT ![Len(df_list)].rows = Append(@, WRow(d, w))]
    /\ UNCHANGED <<pc, error, merged_df, rankVars, dnsVars, weightVars, stageVars>>

\* the caller starts the next source of the list
AddSource ==
    /\ pc = "merge"
    /\ Len(df_list) < MaxSources
    /\ df_list' = Append(df_list, EmptySource)
    /\ UNCHANGED <<pc, error, merged_df, rankVars, dnsVars, weightVars, stageVars>>

\* line 116 raises KeyError on a table without the column "weight"
HasWeightColumn(src) == src.wcol = <<"weight">>

\* lines 113-141; the call may be repeated on the list the first call left
MergeAndAverage ==
    /\ pc \in {"merge", "merged"}
    /\ IF \A i \in 1..Len(df_list) : HasWeightColumn(df_list[i])
       THEN /\ df_list' = [i \in 1..Len(df_list) |-> RenamedSource(df_list[i], i - 1)]
            /\ merged_df' = MergedTable([i \in 1..Len(df_list) |->
                                            GroupbyMean(df_list[i].rows)])
            /\ pc' = "merged"
            /\ UNCHANGED error
       ELSE /\ df_list' = [i \in 1..Len(df_list) |->
                             IF \A j \in 1..i : HasWeightColumn(df_list[j])
                             THEN RenamedSource(df_list[i], i - 1)
                             ELSE df_list[i]]
            /\ error' = "KeyError"
            /\ pc' = "failed"
            /\ UNCHANGED merged_df
    /\ UNCHANGED <<rankVars, dnsVars, weightVars, stageVars>>

\* lines 146-156, called on the caller's list of source tables
BuildFrequencyRank ==
    /\ pc = "merge"
    /\ result_df' = build_frequency_rank([i \in 1..Len(df_list) |-> df_list[i].rows])
    /\ pc' = "counted"
    /\ UNCHANGED <<error, mergeVars, rankVars, dnsVars, weightVars,
                   datasetVars, canonVars, downloadVars>>

NextMerge ==
    \/ \E d \in MergeDomains, w \in MergeWeights : AddRow(d, w)
    \/ AddSource
    \/ MergeAndAverage
    \/ BuildFrequencyRank

SpecMerge == InitSourceMerger /\ [][NextMerge]_vars

(***************************************************************************)
(* process_dataset runs                                                    *)
(***************************************************************************)
\* what load_domain_top_list returns for a short file: up to MaxFileEntries
\* entities with ranks in 0..MaxRank
FileTables ==
    {[i \in 1..Len(ranks) |-> [domain |-> EntityName(i), rank |-> ranks[i]]] :
        ranks \in SeqsUpTo(0..MaxRank, MaxFileEntries)}

\* a file of n entities ranked 1, the last one ranked last
LongTable(n, last) ==
    [i \in 1..n |-> [domain |-> EntityName(i), rank |-> IF i = n THEN last ELSE 1]]

\* files long enough for the top-10 printout
LongTables ==
    {LongTable(TopRows, 1), LongTable(TopRows, 2), LongTable(TopRows + 1, 1)}

\* the second file of a rolling dataset
SecondFiles ==
    { <<>>,
      <<[domain |-> EntityName(1), rank |-> 1], [domain |-> EntityName(2), rank |-> 2]>>,
      <<[domain |-> EntityName(2), rank |-> 3]>> }

\* the files of a dataset, as loaded
DatasetInputs ==
    {<<>>} \cup {<<f>> : f \in FileTables \cup LongTables}
           \cup {<<f, g>> : f \in FileTables, g \in SecondFiles}

InitDatasetRun ==
    /\ pc = "dataset" /\ error = "none"
    /\ filepaths \in DatasetInputs
    /\ use_weight \in BOOLEAN
    /\ ds_df_list = <<>> /\ ds_df = <<>> /\ ds_written = FALSE
    /\ InitRank /\ InitMerge /\ InitDns /\ InitWeights /\ InitFreq /\ InitCanon
    /\ InitDownload

\* lines 55-68 for the next file: 1 / len(df) raises on a file without rows
LoadFile ==
    /\ pc = "dataset"
    /\ Len(ds_df_list) < Len(filepaths)
    /\ LET df_ == filepaths[Len(ds_df_list) + 1]
       IN  IF use_weight /\ Cardinality(RankValues(df_)) <= 1 /\ Len(df_) = 0
           THEN /\ error' = "ZeroDivisionError"
                /\ pc' = "failed"
                /\ UNCHANGED ds_df_list
           ELSE /\ ds_df_list' = Append(ds_df_list, FileWeights(df_, use_weight))
                /\ UNCHANGED <<pc, error>>
    /\ UNCHANGED <<filepaths, use_weight, ds_df, ds_written, rankVars, mergeVars,
                   dnsVars, weightVars, freqVars, canonVars, downloadVars>>

\* lines 70-90: the table is built and written; df_list[0] and pd.concat raise
\* on an empty list of files
SaveDataset ==
    /\ pc = "dataset"
    /\ Len(ds_df_list) = Len(filepaths)
    /\ IF ds_df_list = <<>>
       THEN /\ error' = IF use_weight THEN "IndexError" ELSE "ValueError"
            /\ pc' = "failed"
            /\ UNCHANGED <<ds_df, ds_written>>
       ELSE /\ ds_df' = DatasetTable(ds_df_list, use_weight)
            /\ ds_written' = TRUE
            /\ pc' = "saved"
            /\ UNCHANGED error
    /\ UNCHANGED <<filepaths, use_weight, ds_df_list, rankVars, mergeVars,
                   dnsVars, weightVars, freqVars, canonVars, downloadVars>>

\* lines 92-99: the top-10 printout and the return; line 94 assigns
\* range(1, 11) to the column of a table of 1 to 9 rows and raises
PrintTop10 ==
    /\ pc = "saved"
    /\ IF Len(ds_df) \in 1..(TopRows - 1)
       THEN error' = "ValueError" /\ pc' = "failed"
       ELSE pc' = "returned" /\ UNCHANGED error
    /\ UNCHANGED <<datasetVars, rankVars, mergeVars, dnsVars, weightVars,
                   freqVars, canonVars, downloadVars>>

NextDataset ==
    \/ LoadFile
    \/ SaveDataset
    \/ PrintTop10

SpecDataset == InitDatasetRun /\ [][NextDataset]_vars

(***************************************************************************)
(* canonicalize_domain calls                                               *)
(***************************************************************************)
\* the names given to canonicalize_domain: every string of up to MaxNameLen
\* of these characters, and the missing value
NameChars == {".", "a", "w"}
RawNames == SeqsUpTo(NameChars, MaxNameLen) \cup {None}

InitCanonicalizer ==
    /\ pc = "canon" /\ error = "none"
    /\ raw_name \in RawNames
    /\ canon_name = <<>>
    /\ InitRank /\ InitMerge /\ InitDns /\ InitWeights /\ InitDataset /\ InitFreq
    /\ InitDownload

\* lines 18-24
Canonicalize ==
    /\ pc = "canon"
    /\ canon_name' = canonicalize_domain(raw_name)
    /\ pc' = "canonical"
    /\ UNCHANGED <<error, raw_name, rankVars, mergeVars, dnsVars, weightVars,
                   datasetVars, freqVars, downloadVars>>

NextCanon == Canonicalize

SpecCanon == InitCanonicalizer /\ [][NextCanon]_vars

(***************************************************************************)
(* download_and_extract_columns calls                                      *)
(***************************************************************************)
\* max_retries=5 of the signature
DefaultMaxRetries == 5

\* wait_time += 10
BackoffStep == 10

\* a slip: the same wait before every retry
ConstantBackoff(wait) == BackoffStep

\* the wait before the next retry, from the wait before the last one
Backoff(wait) == wait + BackoffStep

\* how a download attempt can end: the file is downloaded and converted, a
\* ClientError with code "503", a ClientError with another code, or an
\* exception that is no ClientError
Responses == {"ok", "503", "404", "exception"}

InitDownloader ==
    /\ pc = "download" /\ error = "none"
    /\ max_retries \in 0..MaxRetryLimit
    /\ retries = 0 /\ wait_time = 0
    /\ response = "none" /\ attempts = 0 /\ slept = <<>>
    /\ temp_file = FALSE /\ saved = FALSE /\ result = "none"
    /\ InitRank /\ InitMerge /\ InitDns /\ InitWeights
    /\ InitDataset /\ InitFreq /\ InitCanon

\* lines 110-117: a key that check_file_exists does not find ends the call
CheckFileExists(found) ==
    /\ pc = "download"
    /\ IF found
       THEN /\ retries' = 0 /\ wait_time' = 0
            /\ pc' = "loop"
            /\ UNCHANGED result
       ELSE /\ result' = "False"
            /\ pc' = "returned"
            /\ UNCHANGED <<retries, wait_time>>
    /\ UNCHANGED <<error, max_retries, response, attempts, slept, temp_file, saved,
                   rankVars, mergeVars, dnsVars, weightVars,
                   datasetVars, freqVars, canonVars>>

\* lines 119-147: one pass of the loop body, up to the return or the sleep
Attempt(resp) ==
    /\ pc = "loop"
    /\ retries < max_retries
    /\ attempts' = attempts + 1
    /\ response' = resp
    /\ temp_file' = (resp # "ok")
    /\ saved' = (saved \/ resp = "ok")
    /\ wait_time' = IF resp = "503" THEN Backoff(wait_time) ELSE wait_time
    /\ result' = IF resp = "ok" THEN "True"
                 ELSE IF resp = "404" THEN "False" ELSE result
    /\ error' = IF resp = "exception" THEN "Exception" ELSE error
    /\ pc' = IF resp = "503" THEN "sleep"
             ELSE IF resp = "exception" THEN "failed" ELSE "returned"
    /\ UNCHANGED <<max_retries, retries, slept, rankVars, mergeVars, dnsVars,
                   weightVars, datasetVars, freqVars, canonVars>>

\* lines 143-144: time.sleep(wait_time) returns, retries += 1
Sleep ==
    /\ pc = "sleep"
    /\ slept' = Append(slept, wait_time)
    /\ retries' = retries + 1
    /\ pc' = "loop"
    /\ UNCHANGED <<error, max_retries, wait_time, response, attempts, temp_file,
                   saved, result, rankVars, mergeVars, dnsVars, weightVars,
                   datasetVars, freqVars, canonVars>>

\* lines 119 and 148-149: the loop ends with retries = max_retries
GiveUp ==
    /\ pc = "loop"
    /\ ~(retries < max_retries)
    /\ result' = "False"
    /\ pc' = "returned"
    /\ UNCHANGED <<error, max_retries, retries, wait_time, response, attempts, slept,
                   temp_file, saved, rankVars, mergeVars, dnsVars, weightVars,
                   datasetVars, freqVars, canonVars>>

NextDownload ==
    \/ \E found \in BOOLEAN : CheckFileExists(found)
    \/ \E resp \in Responses : Attempt(resp)
    \/ Sleep
    \/ GiveUp

SpecDownload == InitDownloader /\ [][NextDownload]_vars

\* the call keeps running: the service answers every request, with whatever
\* response, and time.sleep returns
FairSpecDownload == SpecDownload /\ WF_vars(NextDownload)

(***************************************************************************)
(* Properties of the RankWeighter                                          *)
(***************************************************************************)
\* the ranks of the table are exactly the distinct values 1..N, N > 0
RanksArePermutation(table) ==
    /\ Len(table) > 0
    /\ {table[i].rank : i \in 1..Len(table)} = 1..Len(table)

\* C1: on a list of N > 0 entities whose ranks are exactly 1..N, the weights
\* apply_zipf_weighting returns sum to 1, and an entity of smaller rank has a
\* strictly greater weight
C1_ZipfSumsToOneAndDecreases ==
    (pc = "ranked" /\ RanksArePermutation(rank_df)) =>
        /\ Len(zipf_df) = Len(rank_df)
        /\ WeightSum(zipf_df) = One
        /\ \A i, j \in 1..Len(rank_df) :
              rank_df[i].rank < rank_df[j].rank =>
                 RLess(zipf_df[j].weight, zipf_df[i].weight)

\* C1 happens: three entities ranked 2, 3, 1 were weighted with s = 2
C1_Witness ==
    /\ pc = "ranked"
    /\ zipf_s = 2
    /\ [i \in 1..Len(rank_df) |-> rank_df[i].rank] = <<2, 3, 1>>
    /\ zipf_df[3].weight = <<36, 49>>

(***************************************************************************)
(* Properties of the weighted merge                                        *)
(***************************************************************************)
\* the step in which merge_and_average_zipf_weights returns a table
MergeReturns == pc = "merge" /\ pc' = "merged"

\* the sum of g[x] over a finite set
RECURSIVE SumOver(_, _)
SumOver(g, S) ==
    IF S = {} THEN Zero
    ELSE LET x == CHOOSE y \in S : TRUE IN RAdd(g[x], SumOver(g, S \ {x}))

\* the mean of the weights source src lists for domain d, 0 when it lists none
SourceWeight(src, d) ==
    LET at == {i \in 1..Len(src.rows) : src.rows[i].domain = d}
    IN  IF at = {} THEN Zero
        ELSE RDiv(SumOver([i \in at |-> src.rows[i].weight], at),
                  <<Cardinality(at), 1>>)

\* m(d): the mean over all the sources of the list of SourceWeight
MeanWeight(list, d) ==
    RDiv(SumOver([i \in 1..Len(list) |-> SourceWeight(list[i], d)], 1..Len(list)),
         <<Len(list), 1>>)

AllDomains(list) == UNION {DomainsOf(list[i].rows) : i \in 1..Len(list)}

\* C2: the weighted merge of k >= 1 sources lists exactly the union of the
\* sources' domains, each once, with final_weight m(d) / (sum of m), m(d) the
\* mean over all k sources of the source's mean weight for d (0 when absent);
\* the final weights are >= 0 and sum to 1
C2_MergeIsNormalizedMean ==
    [][(MergeReturns /\ AllDomains(df_list) # {}) =>
        LET doms == AllDomains(df_list)
            m == [d \in doms |-> MeanWeight(df_list, d)]
            total == SumOver(m, doms)
        IN  /\ DomainsOf(merged_df') = doms
            /\ Len(merged_df') = Cardinality(doms)
            /\ \A i \in 1..Len(merged_df') :
                  /\ merged_df'[i].weight = RDiv(m[merged_df'[i].domain], total)
                  /\ RLeq(Zero, merged_df'[i].weight)
            /\ WeightSum(merged_df') = One]_vars

\* C2 happens: two sources were merged, the second listing a domain the first
\* lacks, and the merged weights differ from both sources' weights
C2_Witness ==
    /\ pc = "merged"
    /\ Len(df_list) = 2
    /\ DomainsOf(df_list[1].rows) = {NameA}
    /\ DomainsOf(df_list[2].rows) = {NameA, NameB}
    /\ merged_df = <<WRow(NameA, <<4, 7>>), WRow(NameB, <<3, 7>>)>>

\* a table with one row per domain whose weights sum to 1
IsDistribution(rows) ==
    /\ rows # <<>>
    /\ Cardinality(DomainsOf(rows)) = Len(rows)
    /\ WeightSum(rows) = One

\* the rows are in descending order of weight
IsDescending(rows) ==
    \A i, j \in 1..Len(rows) : i < j => RLeq(rows[j].weight, rows[i].weight)

\* no two rows have the same weight
DistinctWeights(rows) ==
    \A i, j \in 1..Len(rows) : i # j => rows[i].weight # rows[j].weight

\* the weight the table lists for domain d
WeightIn(rows, d) ==
    rows[CHOOSE i \in 1..Len(rows) : rows[i].domain = d].weight

\* a domain listed by every source with weight w comes out with weight w
UniformDomainsKept(list, out) ==
    \A d \in AllDomains(list) :
        (\A i, j \in 1..Len(list) :
            /\ d \in DomainsOf(list[i].rows)
            /\ WeightIn(list[i].rows, d) = WeightIn(list[j].rows, d))
        => WeightIn(out, d) = WeightIn(list[1].rows, d)

IpsOf(d) == Range(DGet(domain2ip, d, <<>>))
PrefixesOf(ip) == Range(DGet(ip2pfx, ip, <<>>))
AsesOf(pfx) == DGet(pfx2as, pfx, {})

\* how far the run of distribute_weights has come
PrefixWritten == "prefix" \in written
AsWritten == "as" \in written
SplitDone == pc \in {"prefix", "as", "done"} \/ PrefixWritten

\* the rows of df that have a resolved ip, and so are split
SplitIndices == {i \in 1..Len(df) : IpsOf(df[i].domain) # {}}

\* the row of a written table for a key
PrefixRow(pfx) == pfx_table[CHOOSE i \in 1..Len(pfx_table) : pfx_table[i].prefix = pfx]
AsRow(asn) == as_table[CHOOSE i \in 1..Len(as_table) : as_table[i].asn = asn]
TablePrefixes == {pfx_table[i].prefix : i \in 1..Len(pfx_table)}
TableAses == {as_table[i].asn : i \in 1..Len(as_table)}

\* the index gives every split domain one ip, every weighted ip one prefix and
\* every weighted prefix one AS
OneToOne ==
    /\ \A i \in 1..Len(df) : Cardinality(IpsOf(df[i].domain)) = 1
    /\ \A ip \in DKeys(ip_weights) : Cardinality(PrefixesOf(ip)) = 1
    /\ \A pfx \in DKeys(pfx_weights) : Cardinality(AsesOf(pfx)) = 1

\* the scenario {a: 0.6, b: 0.4}, a -> 1.1.1.1 -> 1.1.1.0/24 -> AS1 and
\* b -> 2.2.2.2 -> 2.2.2.0/24 -> AS2
TwoDomainScenario ==
    /\ weight_file.rows = <<WRow(NameA, <<3, 5>>), WRow(NameB, <<2, 5>>)>>
    /\ ~is_frequency
    /\ domain2ip = <<<<NameA, <<"1.1.1.1">>>>, <<NameB, <<"2.2.2.2">>>>>>
    /\ ip2pfx = <<<<"1.1.1.1", <<P1>>>>, <<"2.2.2.2", <<P2>>>>>>
    /\ pfx2as = <<<<P1, {"AS1"}>>, <<P2, {"AS2"}>>>>

\* C4: the weights of the prefix table sum to at least the sum of the matched
\* domains' weights as they enter propagation, to exactly that sum when the
\* chain is one-to-one, and in the two-domain scenario the tables are
\* {1.1.1.0/24: 0.6, 2.2.2.0/24: 0.4} and {AS1: 0.6, AS2: 0.4}
C4_MassBound ==
    /\ PrefixWritten =>
          /\ RLeq(WeightSum(df), WeightSum(pfx_table))
          /\ OneToOne => WeightSum(pfx_table) = WeightSum(df)
    /\ (TwoDomainScenario /\ pc = "done") =>
          /\ [i \in 1..2 |-> <<pfx_table[i].prefix, pfx_table[i].weight>>]
                = <<<<P1, <<3, 5>>>>, <<P2, <<2, 5>>>>>>
          /\ [i \in 1..2 |-> <<as_table[i].asn, as_table[i].weight>>]
                = <<<<"AS1", <<3, 5>>>>, <<"AS2", <<2, 5>>>>>>

\* the rows of the weight file whose canonical domain the index does not list
UnmatchedInFile ==
    {i \in 1..Len(weight_file.rows) :
        ~DHas(domain2pfx_canon, canonicalize_domain(weight_file.rows[i].domain))}

\* the report shows the file's row i with the weight the file gives it
Reported(i) ==
    \E k \in 1..Len(unmatched_report) :
        /\ unmatched_report[k].raw_domain = weight_file.rows[i].domain
        /\ unmatched_report[k].weight = weight_file.rows[i].weight

\* an unmatched domain reaches no ip, prefix or AS
AddsNoWeight(d) ==
    /\ d \notin DomainsOf(df)
    /\ \A k \in 1..Len(ip2domain) : d \notin ip2domain[k][2]
    /\ \A k \in 1..Len(pfx_domains) : d \notin pfx_domains[k][2]
    /\ \A k \in 1..Len(as_domains) : d \notin as_domains[k][2]
    /\ \A k \in 1..Len(pfx_table) : d \notin pfx_table[k].domains
    /\ \A k \in 1..Len(as_table) : d \notin as_table[k].domains

MatchDone == pc \in {"normalize", "split"} \/ SplitDone

\* C5 as stated: every domain of the file that is absent from the index adds
\* no weight to a prefix or AS row, is in no row's domain set, and is shown by
\* the unmatched report with its weight of the input file, however many
\* domains are unmatched
C5_Original_EveryUnmatchedReported ==
    MatchDone =>
        \A i \in UnmatchedInFile :
            /\ AddsNoWeight(canonicalize_domain(weight_file.rows[i].domain))
            /\ Reported(i)

\* C5 amended: every domain of the file that is absent from the index adds no
\* weight to a prefix or AS row and is in no row's domain set; the report
\* shows the HeadLimit unmatched rows of greatest weight (all of them when
\* they are at most HeadLimit), each with its weight of the input file
C5_UnmatchedDroppedAndTopReported ==
    MatchDone =>
        /\ \A i \in UnmatchedInFile :
              /\ AddsNoWeight(canonicalize_domain(weight_file.rows[i].domain))
              /\ \/ Reported(i)
                 \/ /\ Len(unmatched_report) = HeadLimit
                    /\ \A k \in 1..HeadLimit :
                          RLeq(weight_file.rows[i].weight, unmatched_report[k].weight)
        /\ Len(unmatched_report) = Min(HeadLimit, Cardinality(UnmatchedInFile))
        /\ \A k \in 1..Len(unmatched_report) :
              \E i \in UnmatchedInFile :
                 /\ unmatched_report[k].raw_domain = weight_file.rows[i].domain
                 /\ unmatched_report[k].weight = weight_file.rows[i].weight

\* C5 happens: a and b are matched and written to both tables while more than
\* HeadLimit filler domains are unmatched, HeadLimit of them reported, each
\* with its weight 0.02 of the file
C5_Witness ==
    /\ pc = "done"
    /\ DomainsOf(df) = {NameA, NameB}
    /\ Cardinality(UnmatchedInFile) > HeadLimit
    /\ Len(unmatched_report) = HeadLimit
    /\ \A k \in 1..HeadLimit : unmatched_report[k].weight = <<1, 50>>
    /\ \A k \in 1..Len(pfx_table) : pfx_table[k].domains \subseteq {NameA, NameB}

\* the share of row i of df that ip receives
ShareTo(i, ip) ==
    IF ip \in IpsOf(df[i].domain)
    THEN RDiv(df[i].weight, <<Cardinality(IpsOf(df[i].domain)), 1>>)
    ELSE Zero

\* C6: a domain of weight w with n >= 1 distinct resolved ips gives w / n to
\* each; an ip's weight is the sum of the shares of the domains resolving to
\* it; the ip weights sum to the weights of the domains that were split; a
\* domain of weight 1.0 on two ips, each in a prefix of its own, gives each
\* prefix 0.5
C6_EvenSplitOverIps ==
    SplitDone =>
        /\ DKeys(ip_weights) = UNION {IpsOf(df[i].domain) : i \in 1..Len(df)}
        /\ \A ip \in DKeys(ip_weights) :
              DGet(ip_weights, ip, Zero)
                 = SumOver([i \in 1..Len(df) |-> ShareTo(i, ip)], 1..Len(df))
        /\ SumOver([ip \in DKeys(ip_weights) |-> DGet(ip_weights, ip, Zero)],
                   DKeys(ip_weights))
              = SumOver([i \in SplitIndices |-> df[i].weight], SplitIndices)
        /\ (/\ PrefixWritten
            /\ Len(df) = 1 /\ df[1].weight = One
            /\ Cardinality(IpsOf(df[1].domain)) = 2
            /\ \A ip \in IpsOf(df[1].domain) : Cardinality(PrefixesOf(ip)) = 1
            /\ Cardinality(UNION {PrefixesOf(ip) : ip \in IpsOf(df[1].domain)}) = 2)
           => \A k \in 1..Len(pfx_table) : pfx_table[k].weight = <<1, 2>>

\* C6 happens: a of weight 1.0 resolves to 1.1.1.1 and 2.2.2.2, each in its
\* own prefix, and both prefixes were written with weight 0.5
C6_Witness ==
    /\ PrefixWritten
    /\ weight_file.rows = <<WRow(NameA, One)>>
    /\ DGet(domain2ip, NameA, <<>>) = <<"1.1.1.1", "2.2.2.2">>
    /\ DGet(ip_weights, "1.1.1.1", Zero) = <<1, 2>>
    /\ {<<pfx_table[k].prefix, pfx_table[k].weight>> : k \in 1..Len(pfx_table)}
          = {<<P1, <<1, 2>>>>, <<P2, <<1, 2>>>>}

\* the weighted prefixes attributed to an AS
PrefixesOfAs(asn) == {pfx \in TablePrefixes : asn \in AsesOf(pfx)}

\* C7: the weight of every AS row is the sum of the full weights of the
\* (weighted) prefixes attributed to the AS, its prefix set is exactly those
\* prefixes and its domain set the union of their domain sets
C7_AsRowsCopyPrefixWeights ==
    AsWritten =>
        /\ TableAses = UNION {AsesOf(pfx) : pfx \in TablePrefixes}
        /\ Len(as_table) = Cardinality(TableAses)
        /\ \A asn \in TableAses :
              /\ AsRow(asn).weight
                    = SumOver([pfx \in PrefixesOfAs(asn) |-> PrefixRow(pfx).weight],
                              PrefixesOfAs(asn))
              /\ AsRow(asn).prefixes = PrefixesOfAs(asn)
              /\ AsRow(asn).domains
                    = UNION {PrefixRow(pfx).domains : pfx \in PrefixesOfAs(asn)}

\* C7 happens: two distinct prefixes, holding different domains, are both
\* attributed to AS9, whose row has the sum of their weights
C7_Witness ==
    /\ pc = "done"
    /\ PrefixesOfAs("AS9") = {P1, P2}
    /\ PrefixRow(P1).domains # PrefixRow(P2).domains
    /\ AsRow("AS9").weight = One
    /\ AsRow("AS9").domains = {NameA, NameB}

\* the weighted ips that map to a prefix
IpsOfPrefix(pfx) == {ip \in DKeys(ip_weights) : pfx \in PrefixesOf(ip)}

\* C8: the weight of every prefix row is the sum of the full accumulated
\* weights of the ips mapping to the prefix: an ip with m prefixes adds its
\* whole weight to each of the m
C8_PrefixRowsCopyIpWeights ==
    PrefixWritten =>
        /\ TablePrefixes = UNION {PrefixesOf(ip) : ip \in DKeys(ip_weights)}
        /\ Len(pfx_table) = Cardinality(TablePrefixes)
        /\ \A pfx \in TablePrefixes :
              PrefixRow(pfx).weight
                 = SumOver([ip \in IpsOfPrefix(pfx) |-> DGet(ip_weights, ip, Zero)],
                           IpsOfPrefix(pfx))

\* C8 happens: 1.1.1.1 holds all the weight and maps to two prefixes, each
\* written with that whole weight
C8_Witness ==
    /\ PrefixWritten
    /\ DGet(ip_weights, "1.1.1.1", Zero) = One
    /\ PrefixesOf("1.1.1.1") = {P1, P2}
    /\ PrefixRow(P1).weight = One
    /\ PrefixRow(P2).weight = One

\* the weight the input file gives the row of df read from raw name raw
InputWeight(raw) ==
    weight_file.rows[CHOOSE i \in 1..Len(weight_file.rows) :
                        weight_file.rows[i].domain = raw].weight

\* the matched rows' weights of the input file sum to this
MatchedInputSum ==
    LET at == (1..Len(weight_file.rows)) \ UnmatchedInFile
    IN  SumOver([i \in at |-> weight_file.rows[i].weight], at)

\* line 102, read off the input file
NormalizationApplies ==
    is_frequency \/ RLess(<<1, 20>>, RAbs(RSub(MatchedInputSum, One)))

\* C9 as stated: whatever share of the weight the unmatched domains carried,
\* each matched domain enters the domain -> ip split with exactly the weight
\* it has in the input distribution
C9_Original_InputWeightEntersSplit ==
    pc = "split" =>
        \A i \in 1..Len(df) : df[i].weight = InputWeight(df[i].raw_domain)

\* C9 amended: each matched domain enters the split with exactly its weight
\* of the input distribution when the normalization step does not apply
\* (ranked run, matched sum within 0.05 of 1.0), and with that weight divided
\* by the sum of the matched domains' input weights when it does
C9_InputWeightOrItsShareEntersSplit ==
    pc = "split" =>
        /\ [i \in 1..Len(df) |-> df[i].raw_domain]
              = [k \in 1..Len(SelectSeq(weight_file.rows,
                     LAMBDA r : DHas(domain2pfx_canon, canonicalize_domain(r.domain)))) |->
                     SelectSeq(weight_file.rows,
                        LAMBDA r : DHas(domain2pfx_canon, canonicalize_domain(r.domain)))[k].domain]
        /\ \A i \in 1..Len(df) :
              df[i].weight = IF NormalizationApplies
                             THEN RDiv(InputWeight(df[i].raw_domain), MatchedInputSum)
                             ELSE InputWeight(df[i].raw_domain)

\* C9 happens: b, with 0.4 of the weight, is unmatched, and a enters the split
\* with 1.0 instead of its 0.6
C9_Witness ==
    /\ pc = "split"
    /\ weight_file.rows = <<WRow(NameA, <<3, 5>>), WRow(NameB, <<2, 5>>)>>
    /\ UnmatchedInFile = {2}
    /\ Len(df) = 1
    /\ df[1].weight = One

\* the step of lines 101-105
NormalizeRuns == pc = "normalize" /\ pc' = "split"

\* line 102, read off the table entering the step
OffTolerance(table, is_freq) ==
    is_freq \/ RLess(<<1, 20>>, RAbs(RSub(WeightSum(table), One)))

\* the rows of new are the rows of old with every weight scaled alike
SameRatios(old, new) ==
    /\ Len(new) = Len(old)
    /\ \A i \in 1..Len(old) :
          /\ new[i].domain = old[i].domain
          /\ new[i].raw_domain = old[i].raw_domain
    /\ \A i, j \in 1..Len(old) :
          RMul(new[i].weight, old[j].weight) = RMul(new[j].weight, old[i].weight)

\* C10 as stated: the matched rows are renormalized if and only if the run is
\* a presence run or their sum is off 1.0 by more than 0.05; renormalized,
\* they sum to 1 and keep their ratios; otherwise every weight is unchanged
C10_Original_RenormalizedSumsToOne ==
    [][NormalizeRuns =>
        IF OffTolerance(df, is_frequency)
        THEN WeightSum(df') = One /\ SameRatios(df, df')
        ELSE df' = df]_vars

\* C10 amended: as stated, the sum being 1 after a renormalization provided at
\* least one domain matched (with none, the table stays empty and sums to 0)
C10_ConditionalNormalization ==
    [][NormalizeRuns =>
        IF OffTolerance(df, is_frequency)
        THEN /\ df # <<>> => WeightSum(df') = One
             /\ df = <<>> => df' = <<>>
             /\ SameRatios(df, df')
        ELSE df' = df]_vars

\* C10 happens: a ranked run whose two matched weights summed to 0.8 goes on
\* with 0.5 and 0.5
C10_Witness ==
    /\ pc = "split"
    /\ ~is_frequency
    /\ Len(df) = 2
    /\ MatchedInputSum = <<4, 5>>
    /\ df[1].weight = <<1, 2>> /\ df[2].weight = <<1, 2>>

\* the rows of the weight file whose canonical domain has a resolved ip
ResolvedInFile ==
    {i \in 1..Len(weight_file.rows) :
        DHas(domain2ip, canonicalize_domain(weight_file.rows[i].domain))}

\* C11: the domains treated as matched are exactly the domains of the
\* distribution that are keys of the domain -> ip relation; a domain without a
\* resolved ip is reported as unmatched (among the HeadLimit rows the report
\* shows) and its weight is not in the matched sum the normalization uses
C11_MatchedAreDomainsWithIps ==
    MatchDone =>
        /\ DomainsOf(df)
              = {canonicalize_domain(weight_file.rows[i].domain) : i \in ResolvedInFile}
        /\ \A i \in (1..Len(weight_file.rows)) \ ResolvedInFile :
              \/ Reported(i)
              \/ /\ Len(unmatched_report) = HeadLimit
                 /\ \A k \in 1..HeadLimit :
                       RLeq(weight_file.rows[i].weight, unmatched_report[k].weight)
        /\ pc = "normalize" =>
              WeightSum(df)
                 = SumOver([i \in ResolvedInFile |-> weight_file.rows[i].weight],
                           ResolvedInFile)

(***************************************************************************)
(* Properties of the ResolutionIndex                                       *)
(***************************************************************************)
\* a step of process_dns_files that handles one record, row' being the record
RecordHandled == pc = "dns" /\ nread' = nread + 1

\* the record has no ip, no prefix, no canonical domain, or a prefix with
\* neither "." nor ":"
InvalidRecord(r) ==
    \/ r.ip4_address = "" /\ r.ip6_address = ""
    \/ r.ip_prefix = <<>>
    \/ canonicalize_domain(RStripDots(r.query_name)) = <<>>
    \/ \A i \in 1..Len(r.ip_prefix) : r.ip_prefix[i] # "." /\ r.ip_prefix[i] # ":"

\* a relation kept as a dict of lists, and one kept as a dict of sets, as the
\* set of its pairs
ListPairs(d) == UNION {{<<d[i][1], x>> : x \in Range(d[i][2])} : i \in 1..Len(d)}
SetPairs(d) == UNION {{<<d[i][1], x>> : x \in d[i][2]} : i \in 1..Len(d)}

StripTrailingDot(name) ==
    IF name # <<>> /\ name[Len(name)] = "." THEN SubSeq(name, 1, Len(name) - 1)
    ELSE name

\* name without its first four characters when they are "www."
StripLeadingWww(name) ==
    IF Len(name) >= 4 /\ SubSeq(name, 1, 4) = <<"w", "w", "w", ".">>
    THEN SubSeq(name, 5, Len(name))
    ELSE name

\* C13: canonicalize_domain removes a trailing dot and exactly one leading
\* "www." and nothing else: a name not starting with "www." keeps every
\* character but the trailing dot, a "www." inside it included, and a name
\* starting with "www.www." loses only the first "www."
C13_OnlyLeadingWwwRemoved ==
    (pc = "canonical" /\ raw_name # None) =>
        canon_name = StripLeadingWww(StripTrailingDot(raw_name))

(***************************************************************************)
(* Further properties of the RankWeighter                                  *)
(***************************************************************************)
\* every entity of the table has a positive rank of its own
RanksPositiveAndDistinct(table) ==
    /\ \A i \in 1..Len(table) : table[i].rank >= 1
    /\ \A i, j \in 1..Len(table) : table[i].rank = table[j].rank => i = j

\* C14: for every N > 0 and every assignment of positive ranks to the N
\* entities, one rank each and not necessarily the ranks 1..N, the weights
\* apply_zipf_weighting returns sum to 1
C14_ZipfSumsToOneOnAnyRanks ==
    (pc = "ranked" /\ Len(rank_df) > 0 /\ RanksPositiveAndDistinct(rank_df)) =>
        WeightSum(zipf_df) = One

\* the file's entities all have one rank value
SharedRank(file) == Len(file) >= 1 /\ Cardinality(RankValues(file)) = 1

\* C15: when the N >= 1 entities of a list share one rank value,
\* process_dataset (weighting on) gives each of them the weight 1/N; a single
\* entity gets 1.0 whatever its rank
C15_UniformFallback ==
    use_weight =>
        \A k \in 1..Len(ds_df_list) :
            SharedRank(filepaths[k]) =>
                /\ Len(ds_df_list[k]) = Len(filepaths[k])
                /\ \A i \in 1..Len(ds_df_list[k]) :
                      /\ ds_df_list[k][i].domain = filepaths[k][i].domain
                      /\ ds_df_list[k][i].weight = <<1, Len(filepaths[k])>>

\* C15 happens: three entities sharing rank 2 were given 1/3 each, and a
\* second file's single entity of rank 3 the weight 1.0
C15_Witness ==
    /\ use_weight
    /\ Len(ds_df_list) = 2
    /\ [i \in 1..Len(filepaths[1]) |-> filepaths[1][i].rank] = <<2, 2, 2>>
    /\ [i \in 1..Len(ds_df_list[1]) |-> ds_df_list[1][i].weight]
          = <<<<1, 3>>, <<1, 3>>, <<1, 3>>>>
    /\ filepaths[2][1].rank = 3
    /\ ds_df_list[2][1].weight = One

\* C16: apply_zipf_weighting called on a list of N = 0 entities fails with a
\* ConfigurationError and returns no weight table
C16_EmptyInputRejected ==
    (pc # "rank" /\ Len(rank_df) = 0) =>
        pc = "failed" /\ error = "ConfigurationError"

(***************************************************************************)
(* Errors and output of the stages                                         *)
(***************************************************************************)
\* distribute_weights has read a file without the weight column of its mode
ColumnMissing ==
    /\ pc \notin {"dns", "read"}
    /\ weight_file.column # (IF is_frequency THEN "frequency" ELSE "final_weight")

\* C17: given a distribution without its weight column (final_weight in a
\* ranked run, frequency in a presence run) distribute_weights fails with the
\* error raised for that purpose, the ValueError of line 71, and before
\* writing either output table
C17_MissingColumnIsSchemaError ==
    ColumnMissing => pc = "failed" /\ error = "ValueError" /\ written = {}

\* distribute_weights has read a distribution none of whose domains is in the
\* resolution index
ZeroMatched ==
    /\ pc \notin {"dns", "read"}
    /\ ~ColumnMissing
    /\ \A i \in 1..Len(weight_file.rows) :
          LET d == canonicalize_domain(weight_file.rows[i].domain)
          IN  ~DHas(domain2pfx_canon, d) /\ ~DHas(domain2ip, d)

\* C18: when no domain of the distribution is in the resolution index,
\* distribute_weights raises nothing and, once through, has written an empty
\* prefix table and an empty AS table
C18_ZeroMatchedCompletes ==
    ZeroMatched =>
        /\ pc # "failed"
        /\ pc = "done" => written = {"prefix", "as"} /\ pfx_table = <<>> /\ as_table = <<>>

\* C19: a run of distribute_weights either completes having written both of
\* its tables or fails before writing any: none ends in an error with the
\* prefix table written and the AS table not
C19_NoPartialOutput ==
    /\ pc = "failed" => written = {}
    /\ pc = "done" => written = {"prefix", "as"}

(***************************************************************************)
(* Properties of the presence merge                                        *)
(***************************************************************************)
\* the sources of the list that name domain d
SourcesHaving(d) == {i \in 1..Len(df_list) : d \in DomainsOf(df_list[i].rows)}

\* C20: over k >= 1 sources build_frequency_rank lists exactly the union of
\* the sources' domains, each once; a domain's frequency is the number of
\* sources that contain it (a domain repeated in a source counting once) and
\* its normalized_frequency is frequency / k, so 1 <= frequency <= k and
\* 0 < normalized_frequency <= 1; the values are not rescaled to sum to 1
C20_FrequencyCountsSources ==
    pc = "counted" =>
        LET k == Len(df_list)
        IN  /\ k >= 1
            /\ {result_df[i].domain : i \in 1..Len(result_df)}
                  = UNION {DomainsOf(df_list[i].rows) : i \in 1..k}
            /\ \A i, j \in 1..Len(result_df) :
                  result_df[i].domain = result_df[j].domain => i = j
            /\ \A i \in 1..Len(result_df) :
                  /\ result_df[i].frequency
                        = Cardinality(SourcesHaving(result_df[i].domain))
                  /\ result_df[i].frequency \in 1..k
                  /\ RMul(result_df[i].normalized_frequency, <<k, 1>>)
                        = <<result_df[i].frequency, 1>>
                  /\ RLess(Zero, result_df[i].normalized_frequency)
                  /\ RLeq(result_df[i].normalized_frequency, One)

\* C20 happens: of two sources the first lists a twice, the second b and a:
\* a has frequency 2 and b frequency 1, and the normalized values 1 and 1/2
\* sum to more than 1
C20_Witness ==
    /\ pc = "counted"
    /\ Len(df_list) = 2
    /\ [i \in 1..Len(df_list[1].rows) |-> df_list[1].rows[i].domain]
          = <<NameA, NameA>>
    /\ [i \in 1..Len(df_list[2].rows) |-> df_list[2].rows[i].domain]
          = <<NameB, NameA>>
    /\ result_df = <<[domain |-> NameA, frequency |-> 2, normalized_frequency |-> One],
                     [domain |-> NameB, frequency |-> 1, normalized_frequency |-> <<1, 2>>]>>

(***************************************************************************)
(* Order independence of the two merges                                    *)
(***************************************************************************)
\* the sequence with the neighbours at i and i + 1 exchanged
SwapAt(sq, i) ==
    [k \in 1..Len(sq) |->
        IF k = i THEN sq[i + 1] ELSE IF k = i + 1 THEN sq[i] ELSE sq[k]]

\* the source lists one exchange away from list: two neighbouring sources
\* exchanged, or two neighbouring rows of one source exchanged. Every
\* permutation of rows and of sources is a chain of such exchanges, and the
\* lists the merge is run on are closed under them.
Rearrangements(list) ==
    {SwapAt(list, i) : i \in 1..(Len(list) - 1)}
    \cup UNION {{[list EXCEPT ![s].rows = SwapAt(@, i)] :
                    i \in 1..(Len(list[s].rows) - 1)} : s \in 1..Len(list)}

\* what merge_and_average_zipf_weights returns for a list of sources
MergeOf(list) ==
    MergedTable([i \in 1..Len(list) |-> GroupbyMean(list[i].rows)])

\* what build_frequency_rank returns for a list of sources
FrequencyOf(list) ==
    build_frequency_rank([i \in 1..Len(list) |-> list[i].rows])

\* what a table says of its domains: the set of (domain, final weight) pairs
WeightsOf(rows) == {<<rows[i].domain, rows[i].weight>> : i \in 1..Len(rows)}

\* the set of (domain, frequency) pairs of a frequency table
FrequenciesOf(rows) == {<<rows[i].domain, rows[i].frequency>> : i \in 1..Len(rows)}

\* the step in which build_frequency_rank returns a table
FrequencyReturns == pc = "merge" /\ pc' = "counted"

\* C21: exchanging two rows inside a source, or two sources, changes no
\* domain's final_weight in the weighted merge and no domain's frequency in the
\* presence merge (so no permutation of rows or of sources does)
C21_MergesIgnoreOrder ==
    [][/\ MergeReturns =>
            \A l \in Rearrangements(df_list) :
                WeightsOf(MergeOf(l)) = WeightsOf(merged_df')
       /\ FrequencyReturns =>
            \A l \in Rearrangements(df_list) :
                FrequenciesOf(FrequencyOf(l)) = FrequenciesOf(result_df')
      ]_vars

\* two different sources, the first listing one domain twice with different
\* weights, have been merged by presence: both kinds of exchange change the input
C21_Witness ==
    /\ pc = "counted"
    /\ Len(df_list) = 2
    /\ df_list[1] # df_list[2]
    /\ Len(df_list[1].rows) = 2
    /\ df_list[1].rows[1].domain = df_list[1].rows[2].domain
    /\ df_list[1].rows[1].weight # df_list[1].rows[2].weight
    /\ Len(result_df) = 2

(***************************************************************************)
(* Inputs after a run                                                      *)
(***************************************************************************)
\* a step of a call of merge_and_average_zipf_weights, returning or raising
MergeCall == pc \in {"merge", "merged"} /\ pc' \in {"merged", "failed"}

\* a step of distribute_weights
PropagationStep == pc \in {"read", "match", "normalize", "split", "prefix", "as"}

\* C22: a call of merge_and_average_zipf_weights leaves the caller's list as it
\* was, and a second call on the same list returns the same table again;
\* distribute_weights leaves the four relations of the index as they were
C22_InputsLeftUnchanged ==
    [][/\ MergeCall =>
            /\ df_list' = df_list
            /\ pc = "merged" => (pc' = "merged" /\ merged_df' = merged_df)
       /\ PropagationStep =>
            UNCHANGED <<domain2ip, domain2pfx_canon, ip2pfx, pfx2as>>
      ]_vars

(***************************************************************************)
(* When the prefix total equals the matched total                          *)
(***************************************************************************)
\* the weight of the matched domains that have an ip, which is what is split
SplitTotal == SeqSum([i \in 1..Len(df) |->
                        IF i \in SplitIndices THEN df[i].weight ELSE Zero])

\* every ip that carries weight has one prefix
WeightedIpsHaveOnePrefix ==
    \A i \in 1..Len(ip_weights) :
        ip_weights[i][2] # Zero => Cardinality(PrefixesOf(ip_weights[i][1])) = 1

\* every ip that carries weight has one prefix and every prefix that carries
\* weight has one AS
ChainOneToOne ==
    /\ \A ip \in DKeys(ip_weights) : Cardinality(PrefixesOf(ip)) = 1
    /\ \A pfx \in DKeys(pfx_weights) : Cardinality(AsesOf(pfx)) = 1

IndexReturned == pc # "dns"

\* no element occurs twice in the list
DuplicateFree(list) == \A i, j \in 1..Len(list) : i # j => list[i] # list[j]

\* C24: in the returned index no value list of domain -> ip, domain -> prefix
\* or ip -> prefix holds an element twice, and the values of prefix -> as are
\* sets
C24_ValuesDuplicateFree ==
    IndexReturned =>
        /\ \A i \in 1..Len(domain2ip) : DuplicateFree(domain2ip[i][2])
        /\ \A i \in 1..Len(domain2pfx_canon) : DuplicateFree(domain2pfx_canon[i][2])
        /\ \A i \in 1..Len(ip2pfx) : DuplicateFree(ip2pfx[i][2])
        /\ \A i \in 1..Len(pfx2as) : IsFiniteSet(pfx2as[i][2])

\* C25: every key and every value the four relations hold after a record is
\* still held after the next record, and in the index that is returned
C25_IndexAppendOnly ==
    [][/\ RecordHandled =>
            /\ ListPairs(domain2ip) \subseteq ListPairs(domain2ip')
            /\ ListPairs(domain2pfx) \subseteq ListPairs(domain2pfx')
            /\ ListPairs(ip2pfx) \subseteq ListPairs(ip2pfx')
            /\ SetPairs(pfx2as) \subseteq SetPairs(pfx2as')
       /\ (pc = "dns" /\ pc' = "read") =>
            /\ ListPairs(domain2ip) \subseteq ListPairs(domain2ip')
            /\ ListPairs(domain2pfx) \subseteq ListPairs(domain2pfx_canon')
            /\ ListPairs(ip2pfx) \subseteq ListPairs(ip2pfx')
            /\ SetPairs(pfx2as) \subseteq SetPairs(pfx2as')
      ]_vars

(***************************************************************************)
(* Provenance of a prefix row                                              *)
(***************************************************************************)
\* C26: the ips of a row of the prefix table are the ips whose weight was
\* added to the prefix, and its domains are the union of those ips' domains
C26_PrefixRowProvenance ==
    PrefixWritten =>
        \A k \in 1..Len(pfx_table) :
            LET from == IpsOfPrefix(pfx_table[k].prefix)
            IN  /\ pfx_table[k].ips = from
                /\ pfx_table[k].domains = UNION {DGet(ip2domain, ip, {}) : ip \in from}

\* C27: the returned domain -> prefix and domain -> ip relations have the same
\* keys, so every domain matched against domain -> prefix has a resolved ip
C27_SameDomainKeys ==
    /\ IndexReturned => DKeys(domain2pfx_canon) = DKeys(domain2ip)
    /\ MatchDone => \A i \in 1..Len(df) : IpsOf(df[i].domain) # {}

(***************************************************************************)
(* Weights of a processed dataset                                          *)
(***************************************************************************)
\* w is a number from 0 to 1
IsProbability(w) == IsFinite(w) /\ RLeq(Zero, w) /\ RLeq(w, One)

\* C28: for files that each hold at least one entity (ranks >= 0),
\* process_dataset with weighting on writes a table whose final weights are
\* finite numbers from 0 to 1 that sum to 1
C28_FinalWeightsAreProbabilities ==
    (use_weight /\ ds_written /\ \A k \in 1..Len(filepaths) : Len(filepaths[k]) > 0) =>
        /\ \A i \in 1..Len(ds_df) : IsProbability(ds_df[i].final_weight)
        /\ SeqSum([i \in 1..Len(ds_df) |-> ds_df[i].final_weight]) = One

(***************************************************************************)
(* The download retry loop                                                 *)
(***************************************************************************)
\* the call of download_and_extract_columns has ended, by return or exception
CallEnded == pc \in {"returned", "failed"}

\* what holds of a call at every moment: at most max_retries attempts; the
\* waits grow strictly; a 503 is followed by a wait longer than every earlier
\* one; max_retries 503 responses end in False; another client error ends in
\* False with no attempt after it; a successful attempt ends in True
RetryLoopBounded ==
    /\ attempts <= max_retries
    /\ \A i \in 1..Len(slept) : \A j \in 1..(i - 1) : slept[j] < slept[i]
    /\ \A i \in 1..Len(slept) : slept[i] > 0
    /\ pc = "sleep" =>
          /\ response = "503"
          /\ attempts = Len(slept) + 1
          /\ \A i \in 1..Len(slept) : slept[i] < wait_time
    /\ (pc = "returned" /\ Len(slept) = max_retries /\ attempts > 0) =>
          /\ attempts = max_retries
          /\ result = "False"
    /\ (CallEnded /\ response = "404") =>
          /\ pc = "returned" /\ result = "False"
          /\ attempts = Len(slept) + 1
    /\ (CallEnded /\ response = "ok") =>
          /\ pc = "returned" /\ result = "True" /\ saved
          /\ attempts = Len(slept) + 1
    /\ result = "True" => response = "ok"

\* after a 503 that is not the last allowed attempt, another attempt is made
RetriedAfter503 ==
    \A n \in 1..MaxRetryLimit :
        (pc = "sleep" /\ attempts = n /\ n < max_retries) ~> (attempts = n + 1)

\* C29: the retry loop of download_and_extract_columns is bounded and backs
\* off: at most max_retries attempts, every 503 waited out longer than the one
\* before and retried, False after max_retries 503 responses or at once on any
\* other client error, True on success, and every call ends
C29_RetryLoopBoundedAndBacksOff ==
    /\ []RetryLoopBounded
    /\ RetriedAfter503
    /\ <>CallEnded

\* a call with the default max_retries = 5 met five 503 responses, waited 10,
\* 20, 30, 40 and 50 seconds, and returned False
C29_Witness ==
    /\ pc = "returned"
    /\ max_retries = DefaultMaxRetries
    /\ attempts = 5
    /\ slept = <<10, 20, 30, 40, 50>>
    /\ response = "503"
    /\ result = "False"

=============================================================================
